---- MODULE Spec2Model ----
(***************************************************************************)
(* Calypso validation tooling.                                             *)
(*                                                                         *)
(* Part 1: ValidationStateManager (tools/validation_state_manager.py).     *)
(* One unit (chapter, page) with its state file validation_state.json;     *)
(* processes that construct a ValidationStateManager for the unit, call    *)
(* its methods and may stop at any point.  A method call is one step that  *)
(* changes the in-memory dict followed by the two steps of _save_state:    *)
(* open(..., 'w'), which truncates the file, and json.dump + close, which  *)
(* puts the whole document in it.                                          *)
(***************************************************************************)
EXTENDS Integers, Sequences, FiniteSets, TLC

VARIABLES
    file,    \* the unit's state file: [kind, doc]
    state,   \* state[m]: the dict self.state of manager m, NoState before __init__
    pc,      \* pc[m]: where process m is
    call,    \* call[m]: the method m is executing, None between calls
    tool,    \* the command-line tool that is run (parts 2 to 4)
    input,   \* what the tool is run on
    output   \* what the tool has computed so far

managerVars == <<file, state, pc, call>>
toolVars == <<tool, input, output>>
vars == <<file, state, pc, call, tool, input, output>>

\* ---------------------------------------------------------------- bounds
MaxAttempts == 3      \* record_attempt is not called once the history is this long
MaxRetryCount == 4    \* increment_retry is not called once retry_count is this high

\* -------------------------------------------------------------- constants
DefaultMaxRetries == 3

Worker == "worker"
Reader == "reader"
Managers == {Worker, Reader}

None == "None"                  \* Python None in a string- or number-valued slot
Missing == "<missing>"          \* a key the dict does not have
Now == "<now>"                  \* datetime.now().isoformat()
NoneResult == [none |-> TRUE]   \* Python None in the slot of last_result
NoState == [constructed |-> FALSE]

JsonNull == "null"
JsonNullResult == [null |-> TRUE]
NoDoc == [document |-> FALSE]

ScoreKeys == {"text_coverage", "html_structure", "visual_similarity"}
Stages == {"text", "visual"}
Reasons == {"reason"}

\* The calls of record_attempt: (stage, status, scores, issues).
AttemptInputs ==
    { [stage |-> "text", status |-> "failed",
       scores |-> [k \in {"text_coverage", "html_structure"} |->
                      IF k = "text_coverage" THEN "80" ELSE None],
       issues |-> <<"missing words">>],
      [stage |-> "visual", status |-> "passed",
       scores |-> [k \in {"text_coverage"} |-> "100"],
       issues |-> <<>>] }

\* max_retries of a state file that exists before the first manager is made.
PersistedMaxRetries == {DefaultMaxRetries - 1}

\* ------------------------------------------------------------ the dict
FreshState(max_retries) ==
    [ created_at |-> Now,
      status |-> "new",
      stage |-> None,
      attempts |-> <<>>,
      last_result |-> NoneResult,
      retry_count |-> 0,
      max_retries |-> max_retries,
      validation_scores |-> [k \in ScoreKeys |-> None],
      updated_at |-> Missing,
      passed_at |-> Missing,
      failed_at |-> Missing,
      failure_reason |-> Missing,
      blocked_at |-> Missing,
      block_reason |-> Missing ]

\* _load_state, else branch: the dict of a unit that has no state file.
NewState == FreshState(DefaultMaxRetries)

\* ------------------------------------------------------ json.dump / load
NullOut(v) == IF v = None THEN JsonNull ELSE v
NullIn(v) == IF v = JsonNull THEN None ELSE v

AttemptToJson(a) ==
    [a EXCEPT !.scores = [k \in DOMAIN a.scores |-> NullOut(a.scores[k])]]

AttemptFromJson(j) ==
    [j EXCEPT !.scores = [k \in DOMAIN j.scores |-> NullIn(j.scores[k])]]

ToJson(st) ==
    [st EXCEPT
        !.stage = NullOut(st.stage),
        !.attempts = [i \in 1..Len(st.attempts) |-> AttemptToJson(st.attempts[i])],
        !.last_result = IF st.last_result = NoneResult THEN JsonNullResult
                        ELSE AttemptToJson(st.last_result),
        !.validation_scores =
            [k \in DOMAIN st.validation_scores |-> NullOut(st.validation_scores[k])]]

FromJson(doc) ==
    [doc EXCEPT
        !.stage = NullIn(doc.stage),
        !.attempts = [i \in 1..Len(doc.attempts) |-> AttemptFromJson(doc.attempts[i])],
        !.last_result = IF doc.last_result = JsonNullResult THEN NoneResult
                        ELSE AttemptFromJson(doc.last_result),
        !.validation_scores =
            [k \in DOMAIN doc.validation_scores |-> NullIn(doc.validation_scores[k])]]

Absent == [kind |-> "absent", doc |-> NoDoc]
Truncated == [kind |-> "truncated", doc |-> NoDoc]
Complete(doc) == [kind |-> "complete", doc |-> doc]

\* ------------------------------------------------------------- methods
get_retry_count(st) == st.retry_count

get_max_retries(st) == st.max_retries

can_retry(st) == get_retry_count(st) < get_max_retries(st)

get_status(st) == st.status

\* Variants of the methods with one plausible defect each.
increment_retry_capped(st) ==
    [st EXCEPT !.retry_count =
        IF can_retry(st) THEN get_retry_count(st) + 1 ELSE get_retry_count(st)]

increment_retry_marks_failed(st) ==
    [st EXCEPT !.retry_count = get_retry_count(st) + 1, !.status = "failed"]

increment_retry(st) == [st EXCEPT !.retry_count = get_retry_count(st) + 1]

UpdateScores(snapshot, scores) ==
    [k \in DOMAIN snapshot \cup {x \in DOMAIN scores : scores[x] # None} |->
        IF k \in DOMAIN scores /\ scores[k] # None THEN scores[k] ELSE snapshot[k]]

NewAttempt(st, in) ==
    [ timestamp |-> Now,
      stage |-> in.stage,
      attempt_number |-> get_retry_count(st),
      status |-> in.status,
      scores |-> in.scores,
      issues |-> in.issues ]

record_attempt_counts_retry(st, in) ==
    [st EXCEPT
        !.attempts = Append(st.attempts, NewAttempt(st, in)),
        !.stage = in.stage,
        !.last_result = NewAttempt(st, in),
        !.validation_scores = UpdateScores(st.validation_scores, in.scores),
        !.retry_count = get_retry_count(st) + 1]

record_attempt_keeps_latest(st, in) ==
    [st EXCEPT
        !.attempts = <<NewAttempt(st, in)>>,
        !.stage = in.stage,
        !.last_result = NewAttempt(st, in),
        !.validation_scores = UpdateScores(st.validation_scores, in.scores)]

record_attempt_sets_status(st, in) ==
    [st EXCEPT
        !.attempts = Append(st.attempts, NewAttempt(st, in)),
        !.stage = in.stage,
        !.last_result = NewAttempt(st, in),
        !.validation_scores = UpdateScores(st.validation_scores, in.scores),
        !.status = IF in.status = "passed" THEN "passed"
                   ELSE IF get_retry_count(st) + 1 >= get_max_retries(st) THEN "blocked"
                   ELSE "failed"]

record_attempt(st, in) ==
    [st EXCEPT
        !.attempts = Append(st.attempts, NewAttempt(st, in)),
        !.stage = in.stage,
        !.last_result = NewAttempt(st, in),
        !.validation_scores = UpdateScores(st.validation_scores, in.scores)]

mark_passed_exhausts_retries(st, stage) ==
    [st EXCEPT !.status = "passed", !.stage = stage, !.passed_at = Now,
               !.retry_count = get_max_retries(st)]

mark_passed(st, stage) ==
    [st EXCEPT !.status = "passed", !.stage = stage, !.passed_at = Now]

mark_failed(st, stage, reason) ==
    [st EXCEPT !.status = "failed", !.stage = stage, !.failed_at = Now,
               !.failure_reason = reason]

mark_blocked(st, stage, reason) ==
    [st EXCEPT !.status = "blocked", !.stage = stage, !.blocked_at = Now,
               !.block_reason = reason]

reset_keeps_scores(st) ==
    [NewState EXCEPT !.created_at = st.created_at,
                     !.validation_scores = st.validation_scores]

reset(st) == [NewState EXCEPT !.created_at = st.created_at]

\* _save_state, line 63
StampUpdated(st) == [st EXCEPT !.updated_at = Now]

LoadStateOrNew(f) ==
    IF f.kind = "complete" THEN [raised |-> FALSE, value |-> FromJson(f.doc)]
    ELSE [raised |-> FALSE, value |-> NewState]

\* _load_state: the dict it returns, or the exception json.load raises on a
\* file that exists and does not hold a whole document.
LoadState(f) ==
    IF f.kind = "absent" THEN [raised |-> FALSE, value |-> NewState]
    ELSE IF f.kind = "complete" THEN [raised |-> FALSE, value |-> FromJson(f.doc)]
    ELSE [raised |-> TRUE, value |-> NoState]

\* ------------------------------------------------------------- actions
Idle(m) == pc[m] = "idle"

\* ValidationStateManager(chapter, page)
Construct(m) ==
    /\ pc[m] = "none"
    /\ state' = [state EXCEPT ![m] = LoadState(file).value]
    /\ pc' = [pc EXCEPT ![m] = IF LoadState(file).raised THEN "load_error" ELSE "idle"]
    /\ UNCHANGED <<file, call>>
    /\ UNCHANGED toolVars

\* The part of a mutating method before its self._save_state().
Begin(m, name, st) ==
    /\ Idle(m)
    /\ state' = [state EXCEPT ![m] = st]
    /\ pc' = [pc EXCEPT ![m] = "save"]
    /\ call' = [call EXCEPT ![m] = name]
    /\ UNCHANGED file
    /\ UNCHANGED toolVars

IncrementRetryUnsaved(m) ==
    /\ Idle(m)
    /\ get_retry_count(state[m]) < MaxRetryCount
    /\ state' = [state EXCEPT ![m] = increment_retry(state[m])]
    /\ UNCHANGED <<file, pc, call>>
    /\ UNCHANGED toolVars

IncrementRetry(m) ==
    /\ Idle(m)
    /\ get_retry_count(state[m]) < MaxRetryCount
    /\ Begin(m, "increment_retry", increment_retry(state[m]))

RecordAttempt(m) ==
    /\ Idle(m)
    /\ Len(state[m].attempts) < MaxAttempts
    /\ \E in \in AttemptInputs :
          Begin(m, "record_attempt", record_attempt(state[m], in))

MarkPassed(m) ==
    /\ Idle(m)
    /\ \E stage \in Stages : Begin(m, "mark_passed", mark_passed(state[m], stage))

MarkFailed(m) ==
    /\ Idle(m)
    /\ \E stage \in Stages, reason \in Reasons :
          Begin(m, "mark_failed", mark_failed(state[m], stage, reason))

MarkBlocked(m) ==
    /\ Idle(m)
    /\ \E stage \in Stages, reason \in Reasons :
          Begin(m, "mark_blocked", mark_blocked(state[m], stage, reason))

Reset(m) ==
    /\ Idle(m)
    /\ Begin(m, "reset", reset(state[m]))

\* _save_state up to open(self.state_file, 'w'): the file exists and is empty.
SaveOpen(m) ==
    /\ pc[m] = "save"
    /\ state' = [state EXCEPT ![m] = StampUpdated(state[m])]
    /\ file' = Truncated
    /\ pc' = [pc EXCEPT ![m] = "dump"]
    /\ UNCHANGED call
    /\ UNCHANGED toolVars

\* json.dump and the end of the with block; the method returns.
SaveDump(m) ==
    /\ pc[m] = "dump"
    /\ file' = Complete(ToJson(state[m]))
    /\ pc' = [pc EXCEPT ![m] = "idle"]
    /\ call' = [call EXCEPT ![m] = None]
    /\ UNCHANGED state
    /\ UNCHANGED toolVars

\* The process ends (exit, crash, an uncaught exception): its manager is gone.
Stop(m) ==
    /\ pc[m] # "none"
    /\ pc' = [pc EXCEPT ![m] = "none"]
    /\ state' = [state EXCEPT ![m] = NoState]
    /\ call' = [call EXCEPT ![m] = None]
    /\ UNCHANGED file
    /\ UNCHANGED toolVars

\* ------------------------------------------------------ specifications
InitFiles == {Absent} \cup {Complete(ToJson(FreshState(n))) : n \in PersistedMaxRetries}

NoInput == [given |-> FALSE]    \* no tool of parts 2 to 4 has been started
NotRun == [ran |-> FALSE]       \* the tool has not computed anything yet

\* No tool of parts 2 to 4 runs.
NoTool ==
    /\ tool = None
    /\ input = NoInput
    /\ output = NotRun

\* No process has a manager.
NoManager ==
    /\ state = [m \in Managers |-> NoState]
    /\ pc = [m \in Managers |-> "none"]
    /\ call = [m \in Managers |-> None]

Init ==
    /\ file \in InitFiles
    /\ NoManager
    /\ NoTool

\* One process at a time owns the unit.
Next ==
    \/ Construct(Worker)
    \/ IncrementRetry(Worker)
    \/ RecordAttempt(Worker)
    \/ MarkPassed(Worker)
    \/ MarkFailed(Worker)
    \/ MarkBlocked(Worker)
    \/ Reset(Worker)
    \/ SaveOpen(Worker)
    \/ SaveDump(Worker)
    \/ Stop(Worker)

Spec == Init /\ [][Next]_vars

\* A worker recording attempts while another process reads the unit's state.
NextConc ==
    \/ Construct(Worker)
    \/ RecordAttempt(Worker)
    \/ SaveOpen(Worker)
    \/ SaveDump(Worker)
    \/ Construct(Reader)
    \/ Stop(Reader)

SpecConc == Init /\ [][NextConc]_vars

\* ------------------------------------------------------------ vocabulary
Built(m) == pc[m] \in {"idle", "save", "dump"}

\* Process m makes the in-memory change of method `name` in this step.
Starts(m, name) == pc[m] = "idle" /\ pc'[m] = "save" /\ call'[m] = name

\* Process m returns from method `name` in this step.
Returns(m, name) == pc[m] = "dump" /\ pc'[m] = "idle" /\ call[m] = name

AnyMarkSet(st) ==
    st.passed_at # Missing \/ st.failed_at # Missing \/ st.blocked_at # Missing

\* The last three attempts failed, with one increment_retry between them.
ThreeFailedInARow(st) ==
    LET n == Len(st.attempts) IN
    /\ n >= 3
    /\ \A i \in (n - 2)..n : st.attempts[i].status = "failed"
    /\ st.attempts[n - 1].attempt_number = st.attempts[n - 2].attempt_number + 1
    /\ st.attempts[n].attempt_number = st.attempts[n - 1].attempt_number + 1

(***************************************************************************)
(* Part 2: the text comparators (tools/verify_text_content.py and          *)
(* tools/detailed_page_diff.py).  A Python str is a sequence of            *)
(* characters, a character is a string (its code point when it is not      *)
(* ASCII); the methods of str and the regular expressions the tools use    *)
(* are operators on such sequences.                                        *)
(***************************************************************************)
\* ------------------------------------------------------------------ str
Whitespace == {" ", "\n", "\t"}
Bullet == "U+2022"
EnDash == "U+2013"
EmDash == "U+2014"
Digits == {"0", "1", "2", "3", "4", "5", "6", "7", "8", "9"}
UpperCase == <<"A", "B", "C", "D", "E", "F", "G", "H", "I", "J", "K", "L", "M",
               "N", "O", "P", "Q", "R", "S", "T", "U", "V", "W", "X", "Y", "Z">>
LowerCase == <<"a", "b", "c", "d", "e", "f", "g", "h", "i", "j", "k", "l", "m",
               "n", "o", "p", "q", "r", "s", "t", "u", "v", "w", "x", "y", "z">>
Letters == {UpperCase[i] : i \in DOMAIN UpperCase} \cup {LowerCase[i] : i \in DOMAIN LowerCase}

\* \w of the re module, and the hyphen that normalize_word keeps
WordChars == Letters \cup Digits \cup {"_"}

Range(seq) == {seq[i] : i \in DOMAIN seq}

Min(S) == CHOOSE x \in S : \A y \in S : x <= y

\* str.lower(), one character
LowerChar(c) ==
    IF \E i \in DOMAIN UpperCase : UpperCase[i] = c
    THEN LowerCase[CHOOSE i \in DOMAIN UpperCase : UpperCase[i] = c]
    ELSE c

\* str.lower()
Lower(text) == [i \in DOMAIN text |-> LowerChar(text[i])]

\* str.isupper(): a cased character exists and no cased character is lower case
IsUpper(text) ==
    /\ \E i \in DOMAIN text : text[i] \in Range(UpperCase)
    /\ \A i \in DOMAIN text : text[i] \notin Range(LowerCase)

\* str.strip()
Strip(text) ==
    LET inked == {i \in DOMAIN text : text[i] \notin Whitespace} IN
    IF inked = {} THEN <<>>
    ELSE SubSeq(text, Min(inked), CHOOSE i \in inked : \A j \in inked : j <= i)

\* The first position from i on that holds no character of class, Len + 1 if none.
SkipWhile(text, i, class) ==
    Min({j \in i..(Len(text) + 1) : j = Len(text) + 1 \/ text[j] \notin class})

\* str.split(): the maximal runs of non-whitespace characters
RECURSIVE SplitFrom(_, _)
SplitFrom(text, i) ==
    LET start == SkipWhile(text, i, Whitespace)
        stop == Min({j \in start..(Len(text) + 1) :
                        j = Len(text) + 1 \/ text[j] \in Whitespace})
    IN  IF start > Len(text) THEN <<>>
        ELSE <<SubSeq(text, start, stop - 1)>> \o SplitFrom(text, stop)

Split(text) == SplitFrom(text, 1)

\* sep.join(chunks)
RECURSIVE Join(_, _)
Join(sep, chunks) ==
    IF chunks = <<>> THEN <<>>
    ELSE IF Len(chunks) = 1 THEN chunks[1]
    ELSE chunks[1] \o sep \o Join(sep, Tail(chunks))

\* ------------------------------------------------------------------- re
\* A pattern is matched from the left, piece by piece; a piece gives the
\* position after it, or 0 when it does not match.  The patterns below have
\* no piece that can give characters back to the next one.
NoMatch == 0

\* class+
Plus(text, i, class) ==
    IF i = NoMatch THEN NoMatch
    ELSE IF SkipWhile(text, i, class) > i THEN SkipWhile(text, i, class) ELSE NoMatch

\* class*
Star(text, i, class) ==
    IF i = NoMatch THEN NoMatch ELSE SkipWhile(text, i, class)

\* a literal
Lit(text, i, lit) ==
    IF i = NoMatch \/ i + Len(lit) - 1 > Len(text) THEN NoMatch
    ELSE IF SubSeq(text, i, i + Len(lit) - 1) = lit THEN i + Len(lit)
    ELSE NoMatch

\* $ (the texts matched are stripped, so no newline ends them)
AtEnd(text, i) == i = Len(text) + 1

\* \s+ and a literal, for each of the literals
RECURSIVE Words(_, _, _)
Words(text, i, lits) ==
    IF lits = <<>> THEN i
    ELSE Words(text, Lit(text, Plus(text, i, Whitespace), lits[1]), Tail(lits))

\* ------------------------------------------------- is_header_footer_text
principles == <<"p", "r", "i", "n", "c", "i", "p", "l", "e", "s">>
chapter == <<"c", "h", "a", "p", "t", "e", "r">>
business == <<"b", "u", "s", "i", "n", "e", "s", "s">>
real_estate == <<"r", "e", "a", "l", " ", "e", "s", "t", "a", "t", "e">>
RunningTitle ==
    << principles, <<"o", "f">>, <<"r", "e", "a", "l">>, <<"e", "s", "t", "a", "t", "e">>,
       <<"p", "r", "a", "c", "t", "i", "c", "e">>, <<"i", "n">>,
       <<"a", "l", "a", "b", "a", "m", "a">> >>
FooterWords == {business, chapter, real_estate, principles}

is_header_footer_text(text) ==
    LET text_lower == Strip(Lower(text)) IN
    \/ AtEnd(text_lower, Words(text_lower, Plus(text_lower, 1, Digits), RunningTitle))
    \/ Lit(text_lower, Star(text_lower,
               Plus(text_lower, Plus(text_lower, Lit(text_lower, 1, chapter), Whitespace),
                    Digits), Whitespace), <<":">>) # NoMatch
    \/ AtEnd(text_lower, Plus(text_lower, 1, Digits))
    \/ \E w \in FooterWords :
          AtEnd(text_lower,
                Plus(text_lower, Plus(text_lower, Lit(text_lower, 1, w), Whitespace), Digits))

\* ------------------------------------------------------------ extraction
\* The chunks a loop of `text = ....strip(); if text and keep: append` collects.
RECURSIVE Chunks(_, _)
Chunks(texts, drop_header_footer) ==
    IF texts = <<>> THEN <<>>
    ELSE LET text == Strip(Head(texts)) IN
         IF text # <<>> /\ ~(drop_header_footer /\ is_header_footer_text(text))
         THEN <<text>> \o Chunks(Tail(texts), drop_header_footer)
         ELSE Chunks(Tail(texts), drop_header_footer)

\* verify_text_content.extract_text_from_json, the text of the tuple it returns
verify_extract_text_from_json(text_spans) == Join(<<" ">>, Chunks(text_spans, TRUE))

\* detailed_page_diff.extract_text_from_json
diff_extract_text_from_json(text_spans) == Join(<<" ">>, Chunks(text_spans, FALSE))

\* extract_text_from_html of both tools; data is the sequence of the texts
\* handle_data gets outside script and style elements
extract_text_from_html(data) == Join(<<" ">>, Chunks(data, FALSE))

tokenize_words(text) == Split(text)

\* len(set(text.split()))
word_count_of_set(text) == Cardinality(Range(Split(text)))

\* len(text.split())
word_count(text) == Len(Split(text))

normalize_word(word) ==
    SelectSeq(Lower(word), LAMBDA c : c \in WordChars \cup {"-"})

find_missing_and_extra(json_words, html_words) ==
    LET json_set == {normalize_word(w) : w \in Range(json_words)}
        html_set == {normalize_word(w) : w \in Range(html_words)}
    IN  [missing |-> json_set \ html_set, extra |-> html_set \ json_set]

\* ------------------------------------------------------------- coverage
\* coverage is the fraction num / den; the comparisons of the tools with
\* whole numbers are comparisons of num with multiples of den.
Percent == 100
ZeroCoverage == [num |-> 0, den |-> 1]

Coverage(html_word_count, json_word_count) ==
    IF json_word_count > 0
    THEN [num |-> html_word_count * Percent, den |-> json_word_count]
    ELSE ZeroCoverage

Gt(coverage, n) == coverage.num > n * coverage.den
Ge(coverage, n) == coverage.num >= n * coverage.den
Lt(coverage, n) == coverage.num < n * coverage.den
Eq(coverage, n) == coverage.num = n * coverage.den

\* detailed_page_diff: the thresholds of status
Full == 100
ExcellentFrom == 99
AcceptableFrom == 95
\* detailed_page_diff: the threshold of the analysis
CriticalAbove == 105
\* verify_text_content: the thresholds of the exit code
PassedFrom == 94
WarningFrom == 85

diff_status_excellent_from_acceptable(coverage) ==
    IF Gt(coverage, Full) THEN "REJECTED"
    ELSE IF Ge(coverage, Full) THEN "PERFECT"
    ELSE IF Ge(coverage, AcceptableFrom) THEN "EXCELLENT"
    ELSE "FAILED"

diff_status(coverage) ==
    IF Gt(coverage, Full) THEN "REJECTED"
    ELSE IF Ge(coverage, Full) THEN "PERFECT"
    ELSE IF Ge(coverage, ExcellentFrom) THEN "EXCELLENT"
    ELSE IF Ge(coverage, AcceptableFrom) THEN "ACCEPTABLE"
    ELSE "FAILED"

verify_exit_code(coverage) ==
    IF Ge(coverage, PassedFrom) THEN 0
    ELSE IF Ge(coverage, WarningFrom) THEN 1
    ELSE 2

\* "Words that are likely formatting/punctuation"
FormattingChars == {"-", Bullet, EnDash, EmDash, "."}
is_short_word(word) == Len(word) <= 1

is_formatting_word(word) ==
    (\A i \in DOMAIN word : word[i] \in FormattingChars) \/ Len(word) <= 1

\* main of verify_text_content.py from the word counts on
verify_summary(json_word_count, html_word_count) ==
    LET coverage == Coverage(html_word_count, json_word_count) IN
    [ json_word_count |-> json_word_count,
      html_word_count |-> html_word_count,
      coverage |-> coverage,
      exit_code |-> verify_exit_code(coverage) ]

\* main of detailed_page_diff.py from the word counts on, without the analysis
diff_summary(json_word_count, html_word_count) ==
    LET coverage == Coverage(html_word_count, json_word_count) IN
    [ json_word_count |-> json_word_count,
      html_word_count |-> html_word_count,
      coverage |-> coverage,
      status |-> diff_status(coverage) ]

verify_text_content(text_spans, data) ==
    verify_summary(word_count(verify_extract_text_from_json(text_spans)),
                   word_count(extract_text_from_html(data)))

\* main of detailed_page_diff.py: the summary and the analysis of the
\* missing words, which is made when coverage is below 100 and words are missing
detailed_page_diff(text_spans, data) ==
    LET json_words == tokenize_words(diff_extract_text_from_json(text_spans))
        html_words == tokenize_words(extract_text_from_html(data))
        summary == diff_summary(Len(json_words), Len(html_words))
        found == find_missing_and_extra(json_words, html_words)
        analysed == /\ ~Gt(summary.coverage, CriticalAbove)
                    /\ Lt(summary.coverage, Full)
                    /\ found.missing # {}
    IN  [ json_words |-> json_words,
          html_words |-> html_words,
          json_word_count |-> summary.json_word_count,
          html_word_count |-> summary.html_word_count,
          coverage |-> summary.coverage,
          status |-> summary.status,
          missing_words |-> found.missing,
          extra_words |-> found.extra,
          analysed |-> analysed,
          formatting_words |->
              IF analysed THEN {w \in found.missing : is_formatting_word(w)} ELSE {},
          critical_words |->
              IF analysed THEN {w \in found.missing : ~is_formatting_word(w)} ELSE {} ]

\* -------------------------------------------------------------- the runs
MaxSpans == 2        \* text spans of the page, and texts of the HTML file
MaxWordCount == 100  \* words of the page, and of the HTML file

Comparators == {"verify_text_content", "detailed_page_diff"}

\* Texts of spans: blank, two words, a word twice inside more whitespace,
\* a bullet, a word and a dash, a page number, a chapter header.
CompareTexts ==
    { <<" ">>,
      <<"a", "b", " ", "c", "d">>,
      <<" ", "a", "b", " ", " ", "a", "b">>,
      <<Bullet, " ", "a", "b", " ", "-", "-">>,
      <<"1", "2">>,
      <<"C", "h", "a", "p", "t", "e", "r", " ", "1", ":", " ", "a", "b">> }

SeqsUpTo(S, n) == UNION {[1..k -> S] : k \in 0..n}

\* A comparator is started on a page of the extraction JSON and an HTML file.
InitCompare ==
    /\ file = Absent
    /\ NoManager
    /\ tool \in Comparators
    /\ input \in [text_spans : SeqsUpTo(CompareTexts, MaxSpans),
                  data : SeqsUpTo(CompareTexts, MaxSpans)]
    /\ output = NotRun

VerifyTextContent ==
    /\ tool = "verify_text_content"
    /\ output = NotRun
    /\ output' = verify_text_content(input.text_spans, input.data)
    /\ UNCHANGED <<managerVars, tool, input>>

DetailedPageDiff ==
    /\ tool = "detailed_page_diff"
    /\ output = NotRun
    /\ output' = detailed_page_diff(input.text_spans, input.data)
    /\ UNCHANGED <<managerVars, tool, input>>

NextCompare ==
    \/ VerifyTextContent
    \/ DetailedPageDiff

SpecCompare == InitCompare /\ [][NextCompare]_vars

\* A comparator has the two word counts.
InitSummary ==
    /\ file = Absent
    /\ NoManager
    /\ tool \in Comparators
    /\ input \in [json_word_count : 0..MaxWordCount, html_word_count : 0..MaxWordCount]
    /\ output = NotRun

VerifySummary ==
    /\ tool = "verify_text_content"
    /\ output = NotRun
    /\ output' = verify_summary(input.json_word_count, input.html_word_count)
    /\ UNCHANGED <<managerVars, tool, input>>

DiffSummary ==
    /\ tool = "detailed_page_diff"
    /\ output = NotRun
    /\ output' = diff_summary(input.json_word_count, input.html_word_count)
    /\ UNCHANGED <<managerVars, tool, input>>

NextSummary ==
    \/ VerifySummary
    \/ DiffSummary

SpecSummary == InitSummary /\ [][NextSummary]_vars

Ran(name) == tool = name /\ output # NotRun

(***************************************************************************)
(* Part 3: the deduplication validator (tools/verify_deduplication.py).    *)
(* The HTML file is the sequence of its elements: chapter-header divs and  *)
(* the elements ContentExtractor makes a block of.                         *)
(***************************************************************************)
SignificantAbove == 50   \* "Only check significant blocks"
PreviewLength == 100

HeaderDiv == [kind |-> "chapter-header"]
Block(type, content) == [kind |-> "block", type |-> type, content |-> content]

\* check_duplicate_headers: the matches of <div class="chapter-header">.*?</div>
check_duplicate_headers(html) == Len(SelectSeq(html, LAMBDA node : node = HeaderDiv))

\* extract_html_content: the blocks whose content is not blank, in document order
extract_html_content(html) ==
    LET elements == SelectSeq(html, LAMBDA node :
                        node.kind = "block" /\ Strip(node.content) # <<>>)
    IN  [i \in DOMAIN elements |->
            [type |-> elements[i].type, content |-> elements[i].content]]

unnormalized_content(content) == content

\* ' '.join(content.split())
normalized_content(content) == Join(<<" ">>, Split(content))

\* The indices of a list, in order.
Indices(list) == [i \in DOMAIN list |-> i]

find_duplicates(content_blocks) ==
    LET normalized == [i \in DOMAIN content_blocks |->
                          normalized_content(content_blocks[i].content)]
        \* the indices at which `normalized in seen_content` holds
        repeats == SelectSeq(Indices(content_blocks), LAMBDA i :
                       /\ Len(normalized[i]) > SignificantAbove
                       /\ \E j \in 1..(i - 1) : normalized[j] = normalized[i])
        positions(i) ==
            LET same == SelectSeq(Indices(content_blocks), LAMBDA j :
                            normalized[j] = normalized[i])
            IN  [k \in DOMAIN same |-> same[k] - 1]
        duplicates ==
            [k \in DOMAIN repeats |->
                LET i == repeats[k] IN
                [ content |-> SubSeq(normalized[i], 1,
                                     IF Len(normalized[i]) < PreviewLength
                                     THEN Len(normalized[i]) ELSE PreviewLength),
                  type |-> content_blocks[i].type,
                  positions |-> positions(i),
                  count |-> Cardinality({j \in 1..(i - 1) :
                                            normalized[j] = normalized[i]}) + 1 ]]
        \* the first duplicate of every key tuple(dup['positions'])
        unique == SelectSeq(Indices(duplicates), LAMBDA k :
                      \A l \in 1..(k - 1) : duplicates[l].positions # duplicates[k].positions)
    IN  [k \in DOMAIN unique |-> duplicates[unique[k]]]

\* What verify_page and verify_chapter have when they return; duplicates is
\* the empty list when find_duplicates is not reached.
Verdict(header_count, content_blocks, duplicates, success) ==
    [ header_count |-> header_count,
      content_blocks |-> content_blocks,
      duplicates |-> duplicates,
      success |-> success ]

\* verify_page and verify_chapter differ in what they print only.
verify_unit(html) ==
    LET header_count == check_duplicate_headers(html)
        content_blocks == extract_html_content(html)
        duplicates == find_duplicates(content_blocks)
    IN  IF header_count > 1 THEN Verdict(header_count, <<>>, <<>>, FALSE)
        ELSE IF content_blocks = <<>> THEN Verdict(header_count, content_blocks, <<>>, TRUE)
        ELSE IF duplicates # <<>> THEN Verdict(header_count, content_blocks, duplicates, FALSE)
        ELSE Verdict(header_count, content_blocks, duplicates, TRUE)

verify_page(html) == verify_unit(html)

verify_chapter(html) == verify_unit(html)

\* -------------------------------------------------------------- the runs
MaxNodes == 4   \* elements of the HTML file

Repeated(c, n) == [i \in 1..n |-> c]

\* A paragraph of 25 + 1 + 26 characters, a heading with the same words and
\* other whitespace, another paragraph, a paragraph of 50 characters, a blank one.
DedupNodes ==
    { HeaderDiv,
      Block("paragraph", Repeated("a", 25) \o <<" ">> \o Repeated("a", 26)),
      Block("heading_h2", Repeated("a", 25) \o <<" ", "\n", " ">> \o Repeated("a", 26) \o <<" ">>),
      Block("paragraph", Repeated("b", SignificantAbove + 1)),
      Block("paragraph", Repeated("c", SignificantAbove)),
      Block("paragraph", <<" ">>) }

Validators == {"find_duplicates", "verify_page", "verify_chapter"}

InitDedup ==
    /\ file = Absent
    /\ NoManager
    /\ tool \in Validators
    /\ input \in SeqsUpTo(DedupNodes, MaxNodes)
    /\ output = NotRun

\* find_duplicates on the blocks of the file
FindDuplicates ==
    /\ tool = "find_duplicates"
    /\ output = NotRun
    /\ output' = [ content_blocks |-> extract_html_content(input),
                   duplicates |-> find_duplicates(extract_html_content(input)) ]
    /\ UNCHANGED <<managerVars, tool, input>>

VerifyPage ==
    /\ tool = "verify_page"
    /\ output = NotRun
    /\ output' = verify_page(input)
    /\ UNCHANGED <<managerVars, tool, input>>

VerifyChapter ==
    /\ tool = "verify_chapter"
    /\ output = NotRun
    /\ output' = verify_chapter(input)
    /\ UNCHANGED <<managerVars, tool, input>>

NextDedup ==
    \/ FindDuplicates
    \/ VerifyPage
    \/ VerifyChapter

SpecDedup == InitDedup /\ [][NextDedup]_vars

(***************************************************************************)
(* Part 4: the semantic HTML generator (tools/semantic_html_generator.py). *)
(* A span is [text, size, bold, italic]; font sizes are in tenths of a     *)
(* point.                                                                  *)
(***************************************************************************)
BlackCircle == "U+25CF"
WhiteCircle == "U+25CB"
NoiseTexts == {<<BlackCircle>>, <<WhiteCircle>>, <<"*">>}

TitleAbove == 500        \* font_size > 50
LargeAbove == 200        \* font_size > 20
BoldHeadingAbove == 115  \* font_size > 11.5
NoLevel == 0             \* current_heading_level = None

Heading(level, text) == [type |-> "heading", level |-> level, text |-> text]

has_italic(group) == \E i \in DOMAIN group : group[i].italic

flush_group_first_span(group) ==
    [ type |-> "paragraph", text |-> group[1].text, italic |-> has_italic(group) ]

\* flush_group of a group that is not empty
flush_group(group) ==
    [ type |-> "paragraph",
      text |-> Join(<<" ">>, [i \in DOMAIN group |-> group[i].text]),
      italic |-> has_italic(group) ]

is_all_caps(text) == IsUpper(text) /\ Len(text) > 2

is_heading_candidate(text, font_size, is_bold) ==
    \/ font_size > TitleAbove /\ Len(text) > 1
    \/ font_size > LargeAbove /\ is_bold
    \/ is_bold /\ (is_all_caps(text) \/ font_size > BoldHeadingAbove)

heading_level(text, font_size, is_bold) ==
    IF font_size > TitleAbove /\ Len(text) > 1 THEN 1
    ELSE IF font_size > LargeAbove /\ is_bold THEN 2
    ELSE IF is_all_caps(text) THEN 3
    ELSE 4

\* The local variables of group_text_spans_into_elements before the loop.
GroupStart ==
    [ elements |-> <<>>,
      current_group |-> <<>>,
      current_heading_parts |-> <<>>,
      current_heading_level |-> NoLevel ]

\* elements.append of the heading accumulated in current_heading_parts, if any
WithHeadingParts(loc) ==
    IF loc.current_heading_parts # <<>>
    THEN Append(loc.elements,
                Heading(loc.current_heading_level, Join(<<" ">>, loc.current_heading_parts)))
    ELSE loc.elements

\* A heading element of its own for every heading span.
HeadingSpanApart(loc, text, level) ==
    [loc EXCEPT !.elements =
                    Append(IF loc.current_group # <<>>
                           THEN Append(loc.elements, flush_group(loc.current_group))
                           ELSE loc.elements,
                           Heading(level, text)),
                !.current_group = <<>>]

\* One pass of the loop body, for a span that is a heading candidate.
HeadingSpan(loc, text, level) ==
    LET \* "If this is a different heading level than what we're accumulating"
        flushed ==
            IF loc.current_heading_level # NoLevel /\ level # loc.current_heading_level
            THEN [loc EXCEPT !.elements = WithHeadingParts(loc),
                             !.current_heading_parts = <<>>]
            ELSE IF loc.current_group # <<>>
            THEN [loc EXCEPT !.elements = Append(loc.elements, flush_group(loc.current_group)),
                             !.current_group = <<>>]
            ELSE loc
    IN  IF level <= 3
        THEN [flushed EXCEPT !.current_heading_parts = Append(flushed.current_heading_parts, text),
                             !.current_heading_level = level]
        ELSE IF flushed.current_heading_parts # <<>>
        THEN [flushed EXCEPT !.elements = Append(WithHeadingParts(flushed), Heading(level, text)),
                             !.current_heading_parts = <<>>,
                             !.current_heading_level = NoLevel]
        ELSE [flushed EXCEPT !.elements = Append(flushed.elements, Heading(level, text))]

\* One pass of the loop body, for regular text.
RegularSpan(loc, text, span) ==
    LET flushed ==
            IF loc.current_heading_parts # <<>>
            THEN [loc EXCEPT !.elements = WithHeadingParts(loc),
                             !.current_heading_parts = <<>>,
                             !.current_heading_level = NoLevel]
            ELSE loc
    IN  [flushed EXCEPT !.current_group =
            Append(flushed.current_group,
                   [text |-> text, italic |-> span.italic, bold |-> span.bold])]

\* One pass of the loop body.
GroupSpan(loc, span) ==
    LET text == Strip(span.text) IN
    IF text = <<>> THEN loc
    ELSE IF Len(text) < 2 \/ text \in NoiseTexts THEN loc
    ELSE IF is_heading_candidate(text, span.size, span.bold)
    THEN HeadingSpan(loc, text, heading_level(text, span.size, span.bold))
    ELSE RegularSpan(loc, text, span)

RECURSIVE GroupLoop(_, _)
GroupLoop(loc, text_spans) ==
    IF text_spans = <<>> THEN loc
    ELSE GroupLoop(GroupSpan(loc, Head(text_spans)), Tail(text_spans))

group_text_spans_into_elements(text_spans) ==
    LET loc == GroupLoop(GroupStart, text_spans)
        \* "Flush remaining heading parts"
        elements == WithHeadingParts(loc)
    IN  \* "Flush remaining group"
        IF loc.current_group # <<>>
        THEN Append(elements, flush_group(loc.current_group))
        ELSE elements

\* -------------------------------------------------------------- the runs
MaxTextSpans == 4   \* text spans of the page

Span(text, size, bold, italic) ==
    [text |-> text, size |-> size, bold |-> bold, italic |-> italic]

\* Body text at 10 pt (blank, a glyph, one character, two words, italic), a
\* title at 60 pt, bold at 24 pt, bold capitals at 10 pt, bold at 12 pt.
GroupSpans ==
    { Span(<<" ">>, 100, FALSE, FALSE),
      Span(<<BlackCircle>>, 100, FALSE, FALSE),
      Span(<<" ", "x", " ">>, 100, FALSE, FALSE),
      Span(<<"a", "b", " ", "c", "d">>, 100, FALSE, FALSE),
      Span(<<"e", "f">>, 100, FALSE, TRUE),
      Span(<<"A", "b">>, 600, FALSE, FALSE),
      Span(<<"C", "d", " ", "e", "f">>, 240, TRUE, FALSE),
      Span(<<"G", "H", "I">>, 100, TRUE, FALSE),
      Span(<<"G", "h">>, 120, TRUE, FALSE) }

InitGroup ==
    /\ file = Absent
    /\ NoManager
    /\ tool = "group_text_spans_into_elements"
    /\ input \in SeqsUpTo(GroupSpans, MaxTextSpans)
    /\ output = NotRun

GroupTextSpansIntoElements ==
    /\ tool = "group_text_spans_into_elements"
    /\ output = NotRun
    /\ output' = [elements |-> group_text_spans_into_elements(input)]
    /\ UNCHANGED <<managerVars, tool, input>>

NextGroup == GroupTextSpansIntoElements

SpecGroup == InitGroup /\ [][NextGroup]_vars

\* Two processes own a manager of the unit and record attempts.
NextTwoWriters ==
    \/ Construct(Worker)
    \/ RecordAttempt(Worker)
    \/ SaveOpen(Worker)
    \/ SaveDump(Worker)
    \/ Construct(Reader)
    \/ RecordAttempt(Reader)
    \/ SaveOpen(Reader)
    \/ SaveDump(Reader)

SpecTwoWriters == Init /\ [][NextTwoWriters]_vars


(***************************************************************************)
(* Part 5: the structure classifier of generate_chapter_html_v2.py.  A     *)
(* span is its font size, in tenths of a point.                            *)
(***************************************************************************)
DefaultH2 == 270   \* 27
DefaultH3 == 120   \* 12

\* sizes[size] of identify_structure: the number of spans of that size
SizeCount(spans, size) == Cardinality({i \in DOMAIN spans : spans[i] = size})

\* sorted(sizes.items(), key=count, reverse=True): a size comes before another
\* when it has more spans, or as many and was seen first (the sort is stable,
\* the dict keeps the order of insertion).
SortsBefore(spans, a, b) ==
    \/ SizeCount(spans, a) > SizeCount(spans, b)
    \/ /\ SizeCount(spans, a) = SizeCount(spans, b)
       /\ Min({i \in DOMAIN spans : spans[i] = a}) < Min({i \in DOMAIN spans : spans[i] = b})

\* The first of the sizes of S in sorted_sizes.
MostFrequent(spans, S) == CHOOSE a \in S : \A b \in S \ {a} : SortsBefore(spans, a, b)

\* What identify_structure prints.
StructureReport == <<"Text analysis:", "Total spans", "Font size distribution (top 5)">>

identify_structure(spans) ==
    LET all_sizes == Range(spans)
        h2 == IF all_sizes # {} THEN MostFrequent(spans, all_sizes) ELSE DefaultH2
        h3 == IF Cardinality(all_sizes) > 1
              THEN MostFrequent(spans, all_sizes \ {h2}) ELSE DefaultH3
    IN  [h2 |-> h2, h3 |-> h3, all_sizes |-> all_sizes]

\* size >= thresholds['h2'] * 0.8, size >= thresholds['h3'] * 0.9
classify_span(size, thresholds) ==
    IF size * 10 >= thresholds.h2 * 8 THEN "h2"
    ELSE IF size * 10 >= thresholds.h3 * 9 THEN "h3"
    ELSE "p"

\* -------------------------------------------------------------- the runs
MaxSizedSpans == 5   \* spans of the chapter

FontSizes == {100, 120, 240}

InitClassify ==
    /\ file = Absent
    /\ NoManager
    /\ tool = "identify_structure"
    /\ input \in SeqsUpTo(FontSizes, MaxSizedSpans)
    /\ output = NotRun

\* main up to the classification of the spans
IdentifyStructure ==
    /\ tool = "identify_structure"
    /\ output = NotRun
    /\ output' = [ thresholds |-> identify_structure(input),
                   printed |-> StructureReport,
                   classes |-> [i \in DOMAIN input |->
                                   classify_span(input[i], identify_structure(input))] ]
    /\ UNCHANGED <<managerVars, tool, input>>

NextClassify == IdentifyStructure

SpecClassify == InitClassify /\ [][NextClassify]_vars

(***************************************************************************)
(* Part 6: the text-to-HTML converter (tools/html_converter.py), with the  *)
(* default rules of load_conversion_rules.  The HTML is the sequence of    *)
(* the parts appended to html_parts: [tag, text].                          *)
(***************************************************************************)
PageBreak == <<"-", "-", "-", "P", "A", "G", "E", "_", "B", "R", "E", "A", "K", "-", "-", "-">>
Backtick == "U+0060"
DoubleQuote == "U+0022"
Apostrophe == "U+0027"
Fence == <<Backtick, Backtick, Backtick>>
ListMarkers == {"-", Bullet, "*"}
SectionWords == { chapter, <<"s", "e", "c", "t", "i", "o", "n">>, <<"p", "a", "r", "t">> }
TitleLength == 10   \* {10,}

\* lit in text
Contains(text, lit) ==
    \E i \in 1..(Len(text) - Len(lit) + 1) : SubSeq(text, i, i + Len(lit) - 1) = lit

\* text.split("\n")
RECURSIVE SplitLines(_)
SplitLines(text) ==
    LET stop == SkipWhile(text, 1, {c \in Range(text) : c # "\n"}) IN
    IF stop > Len(text) THEN <<text>>
    ELSE <<SubSeq(text, 1, stop - 1)>> \o SplitLines(SubSeq(text, stop + 1, Len(text)))

\* html.escape
EscapeChar(c) ==
    CASE c = "&" -> <<"&", "a", "m", "p", ";">>
      [] c = "<" -> <<"&", "l", "t", ";">>
      [] c = ">" -> <<"&", "g", "t", ";">>
      [] c = DoubleQuote -> <<"&", "q", "u", "o", "t", ";">>
      [] c = Apostrophe -> <<"&", "#", "x", "2", "7", ";">>
      [] OTHER -> <<c>>

RECURSIVE escape(_)
escape(text) == IF text = <<>> THEN <<>> ELSE EscapeChar(Head(text)) \o escape(Tail(text))

\* ^[-*bullet]\s+|^\d+\)\s+
MatchesList(stripped) ==
    \/ Len(stripped) > 0 /\ stripped[1] \in ListMarkers /\ Plus(stripped, 2, Whitespace) # NoMatch
    \/ Plus(stripped, Lit(stripped, Plus(stripped, 1, Digits), <<")">>), Whitespace) # NoMatch

\* classify_line, the class it returns; the heading patterns ignore case
classify_line(line) ==
    LET stripped == Strip(line) IN
    IF stripped = <<>> THEN "empty"
    ELSE IF Len(stripped) >= TitleLength /\ Range(stripped) \subseteq Letters \cup Whitespace
    THEN "h1"
    ELSE IF \E w \in SectionWords :
                Plus(stripped, Plus(stripped, Lit(Lower(stripped), 1, w), Whitespace), Digits)
                    # NoMatch
    THEN "h2"
    ELSE IF Plus(stripped, Lit(stripped, Plus(stripped, 1, Digits), <<".">>), Whitespace) # NoMatch
    THEN "h3"
    ELSE IF MatchesList(stripped) THEN "list"
    ELSE IF Lit(stripped, 1, Fence) # NoMatch THEN "code"
    ELSE "paragraph"

Part(tag, text) == [tag |-> tag, text |-> text]

\* The local variables of text_to_html before the loop.
ConvertStart ==
    [ html_parts |-> <<>>,
      in_code_block |-> FALSE,
      in_list |-> FALSE,
      paragraph_lines |-> <<>>,
      raised |-> FALSE ]

\* if paragraph_lines: html_parts.append(<p ...>); paragraph_lines = []
FlushParagraph(loc) ==
    IF loc.paragraph_lines # <<>>
    THEN [loc EXCEPT !.html_parts = Append(@, Part("p", escape(Join(<<" ">>, loc.paragraph_lines)))),
                     !.paragraph_lines = <<>>]
    ELSE loc

\* if in_list: html_parts.append("</ul>"); in_list = False
CloseList(loc) ==
    IF loc.in_list
    THEN [loc EXCEPT !.html_parts = Append(@, Part("/ul", <<>>)), !.in_list = FALSE]
    ELSE loc

\* if in_code_block: html_parts.append("</code></pre>"); in_code_block = False
CloseCode(loc) ==
    IF loc.in_code_block
    THEN [loc EXCEPT !.html_parts = Append(@, Part("/pre", <<>>)), !.in_code_block = FALSE]
    ELSE loc

Emit(loc, tag, text) == [loc EXCEPT !.html_parts = Append(@, Part(tag, text))]

\* The list branch: re.sub(r"^[-*bullet]\s+|^\\d+\\)\\s+", ...) raises re.error
\* (unbalanced parenthesis) when the pattern is compiled, after the list was
\* opened.
ListLine(loc, stripped) ==
    LET opened == IF ~FlushParagraph(loc).in_list
                  THEN [Emit(FlushParagraph(loc), "ul", <<>>) EXCEPT !.in_list = TRUE]
                  ELSE FlushParagraph(loc)
    IN  [opened EXCEPT !.raised = TRUE]

\* The code branch.
CodeLine(loc, stripped) ==
    LET closed == CloseList(FlushParagraph(loc)) IN
    IF Lit(stripped, 1, Fence) # NoMatch
    THEN IF ~closed.in_code_block
         THEN [Emit(closed, "pre", <<>>) EXCEPT !.in_code_block = TRUE]
         ELSE [Emit(closed, "/pre", <<>>) EXCEPT !.in_code_block = FALSE]
    ELSE IF closed.in_code_block THEN Emit(closed, "code", escape(stripped))
    ELSE closed

\* One pass of the loop body.
ConvertLine(loc, line) ==
    LET line_class == classify_line(line)
        stripped == Strip(line)
    IN  IF Contains(line, PageBreak)
        THEN Emit(CloseList(FlushParagraph(loc)), "page-break", <<>>)
        ELSE IF line_class = "empty" THEN CloseList(FlushParagraph(loc))
        ELSE IF line_class \in {"h1", "h2", "h3"}
        THEN Emit(CloseList(FlushParagraph(loc)), line_class, escape(stripped))
        ELSE IF line_class = "list" THEN ListLine(loc, stripped)
        ELSE IF line_class = "code" THEN CodeLine(loc, stripped)
        ELSE [CloseCode(CloseList(loc)) EXCEPT !.paragraph_lines = Append(@, stripped)]

RECURSIVE ConvertLoop(_, _)
ConvertLoop(loc, lines) ==
    IF lines = <<>> \/ loc.raised THEN loc
    ELSE ConvertLoop(ConvertLine(loc, Head(lines)), Tail(lines))

\* text_to_html: html_parts when the function returns or raises
text_to_html(text_content) ==
    LET loc == ConvertLoop(ConvertStart, SplitLines(text_content)) IN
    IF loc.raised THEN [raised |-> TRUE, html_parts |-> loc.html_parts]
    ELSE [raised |-> FALSE,
          html_parts |-> CloseCode(CloseList(FlushParagraph(loc))).html_parts]

\* -------------------------------------------------------------- the runs
MaxLines == 4   \* lines of the text

\* An empty line, two list items, a section title, a numbered title, a title,
\* a paragraph line, a code fence, a page break.
ConvertLines ==
    { <<>>,
      <<"-", " ", "a", "b">>,
      <<"1", ")", " ", "a", "b">>,
      <<"P", "a", "r", "t", " ", "1">>,
      <<"1", ".", " ", "a", "b">>,
      <<"A", "B", " ", "C", "D", " ", "E", "F", " ", "G", "H">>,
      <<"a", "<", "b">>,
      Fence,
      PageBreak }

InitConvert ==
    /\ file = Absent
    /\ NoManager
    /\ tool = "text_to_html"
    /\ input \in {Join(<<"\n">>, lines) : lines \in SeqsUpTo(ConvertLines, MaxLines)}
    /\ output = NotRun

TextToHtml ==
    /\ tool = "text_to_html"
    /\ output = NotRun
    /\ output' = text_to_html(input)
    /\ UNCHANGED <<managerVars, tool, input>>

NextConvert == TextToHtml

SpecConvert == InitConvert /\ [][NextConvert]_vars

(***************************************************************************)
(* Part 7: the HTML validator (tools/validate_html.py).  A page is the     *)
(* sequence of its tags, written one after the other with nothing between  *)
(* them; a tag that carries text (title, heading, paragraph, list item) is  *)
(* the whole element.  A finding is a message with the values put into it.  *)
(***************************************************************************)
Tag(name, classes, text) == [tag |-> name, classes |-> classes, text |-> text]
Bare(name) == Tag(name, {}, <<>>)
Msg(message, values) == [message |-> message, values |-> values]

HeadingTags == <<"h1", "h2", "h3", "h4", "h5", "h6">>
TextShown == 50   \* text[:50]
key_classes == <<"page-container", "page-content", "section-heading", "paragraph", "bullet-list">>

HasTag(html, name) == \E i \in DOMAIN html : html[i].tag = name
HasClass(html, class) == \E i \in DOMAIN html : class \in html[i].classes
CountTags(html, names) == Cardinality({i \in DOMAIN html : html[i].tag \in names})

Warn(self, message, values) == [self EXCEPT !.warnings = Append(@, Msg(message, values))]
Fail(self, message, values) == [self EXCEPT !.errors = Append(@, Msg(message, values))]
Note(self, message, values) == [self EXCEPT !.info = Append(@, Msg(message, values))]

\* HTMLValidator.__init__
HTMLValidator(html_content) ==
    [ html |-> html_content,
      errors |-> <<>>,
      warnings |-> <<>>,
      info |-> <<>>,
      heading_levels |-> <<>>,
      classes_found |-> {} ]

\* for open_tag, close_tag in required_tags
RECURSIVE CheckClosed(_, _)
CheckClosed(self, required_tags) ==
    IF required_tags = <<>> THEN self
    ELSE LET open_tag == Head(required_tags) IN
         CheckClosed(IF HasTag(self.html, open_tag) /\ ~HasTag(self.html, "/" \o open_tag)
                     THEN Fail(self, "Missing closing tag", <<open_tag>>)
                     ELSE self,
                     Tail(required_tags))

_check_html_structure(self) ==
    LET s1 == IF ~(self.html # <<>> /\ self.html[1].tag = "!DOCTYPE")
              THEN Warn(self, "Missing or incorrect DOCTYPE declaration", <<>>) ELSE self
        s2 == IF ~HasTag(self.html, "html") THEN Fail(s1, "Missing <html> tag", <<>>) ELSE s1
        s3 == IF ~HasTag(self.html, "/html")
              THEN Fail(s2, "Missing closing </html> tag", <<>>) ELSE s2
    IN  CheckClosed(s3, <<"body", "head", "main">>)

_check_head_section(self) ==
    LET s1 == IF HasTag(self.html, "meta charset") THEN self
              ELSE Warn(self, "Missing charset declaration in <meta>", <<>>)
        s2 == IF HasTag(self.html, "meta viewport") THEN s1
              ELSE Warn(s1, "Missing viewport meta tag (mobile responsiveness)", <<>>)
        titled == {i \in DOMAIN self.html : self.html[i].tag = "title" /\ self.html[i].text # <<>>}
        s3 == IF HasTag(self.html, "title")
              THEN IF titled # {} THEN Note(s2, "Page title", <<self.html[Min(titled)].text>>)
                   ELSE s2
              ELSE Fail(s2, "Missing <title> tag", <<>>)
    IN  IF HasTag(self.html, "link css") THEN s3
        ELSE Fail(s3, "Missing CSS stylesheet link", <<>>)

_check_required_elements(self) ==
    LET s1 == IF HasClass(self.html, "page-container") THEN self
              ELSE Fail(self, "Missing .page-container element", <<>>)
        s2 == IF HasClass(self.html, "page-content") THEN s1
              ELSE Fail(s1, "Missing .page-content element", <<>>)
        s3 == IF HasClass(self.html, "chapter-header") THEN s2
              ELSE Warn(s2, "Missing .chapter-header element", <<>>)
        s4 == IF HasClass(self.html, "section-navigation") THEN s3
              ELSE Warn(s3, "Missing .section-navigation element (chapter navigation)", <<>>)
        s5 == IF HasClass(self.html, "section-heading") THEN s4
              ELSE Warn(s4, "Missing .section-heading element (main section heading)", <<>>)
    IN  IF HasTag(self.html, "footer") \/ HasClass(self.html, "page-footer")
        THEN Note(s5, "Document format: Paginated (contains footers)", <<>>)
        ELSE Note(s5, "Document format: Continuous (no page footers)", <<>>)

Level(name) == CHOOSE level \in DOMAIN HeadingTags : HeadingTags[level] = name

\* for level, text in headings
RECURSIVE NoteHeadings(_, _)
NoteHeadings(self, headings) ==
    IF headings = <<>> THEN self
    ELSE NoteHeadings(
            [Note(self, "h", <<Level(Head(headings).tag),
                               SubSeq(Head(headings).text, 1,
                                      Min({TextShown, Len(Head(headings).text)}))>>)
                EXCEPT !.heading_levels = Append(@, Level(Head(headings).tag))],
            Tail(headings))

\* for i in range(len(self.heading_levels) - 1)
RECURSIVE WarnJumps(_, _)
WarnJumps(self, i) ==
    IF i >= Len(self.heading_levels) THEN self
    ELSE WarnJumps(IF self.heading_levels[i + 1] - self.heading_levels[i] > 1
                   THEN Warn(self, "Heading hierarchy jump",
                             <<self.heading_levels[i], self.heading_levels[i + 1]>>)
                   ELSE self,
                   i + 1)

_check_heading_hierarchy(self) ==
    LET headings == SelectSeq(self.html,
                        LAMBDA t : t.tag \in Range(HeadingTags) /\ t.text # <<>>)
        s1 == IF headings = <<>> THEN Warn(self, "No headings found on page", <<>>) ELSE self
        s2 == NoteHeadings(s1, headings)
        s3 == IF s2.heading_levels # <<>> /\ s2.heading_levels[1] # 1
              THEN Warn(s2, "First heading is not h1", <<s2.heading_levels[1]>>) ELSE s2
    IN  IF s2.heading_levels # <<>> THEN WarnJumps(s3, 1) ELSE s2

_check_semantic_classes(self) ==
    LET found_classes == UNION {self.html[i].classes : i \in DOMAIN self.html}
        missing == SelectSeq(key_classes, LAMBDA c : c \notin found_classes)
        s1 == [self EXCEPT !.classes_found = found_classes]
        s2 == IF missing # <<>> THEN Warn(s1, "Missing key semantic classes", missing) ELSE s1
    IN  Note(s2, "Semantic classes used", found_classes)

\* re.findall(r'<ul[^>]*>(.+?)</ul>', ...): the contents of the lists, from
\* tag i on; a list's content is not empty
RECURSIVE ul_matches(_, _)
ul_matches(html, i) ==
    LET opens == {a \in i..Len(html) : html[a].tag = "ul"}
        closes == IF opens = {} THEN {}
                  ELSE {b \in (Min(opens) + 2)..Len(html) : html[b].tag = "/ul"}
    IN  IF closes = {} THEN <<>>
        ELSE <<SubSeq(html, Min(opens) + 1, Min(closes) - 1)>> \o ul_matches(html, Min(closes) + 1)

\* for i, content in enumerate(ul_matches)
RECURSIVE CheckItems(_, _, _)
CheckItems(self, matches, i) ==
    IF i > Len(matches) THEN self
    ELSE LET li_count == CountTags(matches[i], {"li", "li open"})
             noted == Note(self, "Unordered list items", <<i, li_count>>)
         IN  CheckItems(IF li_count = 0 THEN Fail(noted, "<ul> element has no <li> items", <<i>>)
                        ELSE noted,
                        matches, i + 1)

_check_lists(self) ==
    LET s1 == CheckItems(self, ul_matches(self.html, 1), 1)
        li_open == CountTags(self.html, {"li", "li open"})
        li_close == CountTags(self.html, {"li"})
    IN  IF li_open # li_close THEN Warn(s1, "Unmatched <li> tags", <<li_open, li_close>>)
        ELSE s1

_check_paragraphs(self) ==
    LET p_count == CountTags(self.html, {"p"})
        empty_p == {i \in DOMAIN self.html :
                        self.html[i].tag = "p" /\ Range(self.html[i].text) \subseteq Whitespace}
        s1 == Note(self, "Total paragraphs", <<p_count>>)
    IN  IF empty_p # {} THEN Warn(s1, "Found empty paragraph tags", <<Cardinality(empty_p)>>)
        ELSE s1

\* validate: the validator after the seven checks
Validated(self) ==
    _check_paragraphs(_check_lists(_check_semantic_classes(_check_heading_hierarchy(
        _check_required_elements(_check_head_section(_check_html_structure(self)))))))

\* validate: what it returns
validate(self) ==
    LET checked == Validated(self) IN
    [ valid |-> Len(checked.errors) = 0,
      errors |-> checked.errors,
      warnings |-> checked.warnings,
      info |-> checked.info ]

\* report: what it prints
report(self) ==
    LET results == validate(self) IN
    [ status |-> IF results.valid THEN "VALID" ELSE "INVALID",
      errors |-> results.errors,
      warnings |-> results.warnings,
      info |-> results.info ]

\* save_json_report: the report_data it writes
save_json_report(self) ==
    LET results == validate(self) IN
    [ validation_type |-> "html_structure_and_semantic",
      validation_timestamp |-> Now,
      status |-> IF results.valid THEN "VALID" ELSE "INVALID",
      valid |-> results.valid,
      error_count |-> Len(results.errors),
      warning_count |-> Len(results.warnings),
      info_count |-> Len(results.info),
      errors |-> results.errors,
      warnings |-> results.warnings,
      info |-> results.info,
      semantic_classes_found |-> Validated(self).classes_found ]

\* -------------------------------------------------------------- the runs
MaxTags == 3    \* tags of the page's content
MaxCalls == 2   \* calls of validate on one validator

Ch == <<"C", "h">>

\* Nothing; a bare document; a page with all it needs but the classes of its
\* content; the same page with no DOCTYPE, no viewport, no stylesheet and an
\* open body.
Shells ==
    { [before |-> <<>>, after |-> <<>>],
      [before |-> <<Bare("html"), Bare("body")>>, after |-> <<Bare("/body"), Bare("/html")>>],
      [before |-> <<Bare("!DOCTYPE"), Bare("html"), Bare("head"), Bare("meta charset"),
                    Bare("meta viewport"), Tag("title", {}, Ch), Bare("link css"),
                    Bare("/head"), Bare("body"), Tag("div", {"page-container"}, <<>>),
                    Tag("div", {"chapter-header"}, <<>>),
                    Tag("nav", {"section-navigation"}, <<>>),
                    Tag("main", {"page-content"}, <<>>)>>,
       after |-> <<Bare("/main"), Bare("footer"), Bare("/body"), Bare("/html")>>],
      [before |-> <<Bare("html"), Bare("head"), Bare("meta charset"), Tag("title", {}, <<>>),
                    Bare("/head"), Bare("body"), Tag("div", {"page-container"}, <<>>),
                    Tag("main", {"page-content"}, <<>>)>>,
       after |-> <<Bare("/main"), Bare("/html")>>] }

\* A section heading, a heading two levels down, a paragraph, an empty
\* paragraph, a list's start and end, a list item, an open list item.
ContentTags ==
    { Tag("h1", {"section-heading"}, Ch),
      Tag("h3", {}, Ch),
      Tag("p", {"paragraph"}, Ch),
      Tag("p", {}, <<" ">>),
      Tag("ul", {"bullet-list"}, <<>>),
      Bare("/ul"),
      Tag("li", {}, Ch),
      Bare("li open") }

Pages == {shell.before \o content \o shell.after :
            shell \in Shells, content \in SeqsUpTo(ContentTags, MaxTags)}

InitValidate ==
    /\ file = Absent
    /\ NoManager
    /\ tool = "validate_html"
    /\ input \in Pages
    /\ output = NotRun

\* validator = HTMLValidator(html_content)
NewValidator ==
    /\ tool = "validate_html"
    /\ output = NotRun
    /\ output' = [self |-> HTMLValidator(input), returned |-> <<>>,
                  json |-> NotRun, screen |-> NotRun]
    /\ UNCHANGED <<managerVars, tool, input>>

CanValidate ==
    /\ tool = "validate_html"
    /\ output # NotRun
    /\ Len(output.returned) < MaxCalls

\* results = validator.validate()
Validate ==
    /\ CanValidate
    /\ output' = [output EXCEPT !.self = Validated(@),
                                !.returned = Append(@, validate(output.self))]
    /\ UNCHANGED <<managerVars, tool, input>>

\* validator.save_json_report(json_output)
SaveJsonReport ==
    /\ CanValidate
    /\ output' = [output EXCEPT !.self = Validated(@),
                                !.returned = Append(@, validate(output.self)),
                                !.json = save_json_report(output.self)]
    /\ UNCHANGED <<managerVars, tool, input>>

\* validator.report()
Report ==
    /\ CanValidate
    /\ output' = [output EXCEPT !.self = Validated(@),
                                !.returned = Append(@, validate(output.self)),
                                !.screen = report(output.self)]
    /\ UNCHANGED <<managerVars, tool, input>>

NextValidate == NewValidator \/ Validate \/ SaveJsonReport \/ Report

SpecValidate == InitValidate /\ [][NextValidate]_vars

(***************************************************************************)
(* Part 8: the page-number fixer (tools/fix_page_numbers.py) on a chapter   *)
(* directory of image files.  A file is a name and a content; the directory *)
(* holds one file per name.                                                 *)
(***************************************************************************)
DecimalDigits == <<"0", "1", "2", "3", "4", "5", "6", "7", "8", "9">>
PadWidth == 2   \* :02d

\* The characters of the file names, in the order of their code points.
CodePoints ==
    <<".">> \o DecimalDigits \o <<"_">> \o LowerCase

Ord(c) == CHOOSE i \in DOMAIN CodePoints : CodePoints[i] = c

\* a < b for two strings
RECURSIVE StrLess(_, _)
StrLess(a, b) ==
    IF b = <<>> THEN FALSE
    ELSE IF a = <<>> THEN TRUE
    ELSE IF Head(a) # Head(b) THEN Ord(Head(a)) < Ord(Head(b))
    ELSE StrLess(Tail(a), Tail(b))

\* sorted(names)
RECURSIVE Sorted(_)
Sorted(names) ==
    IF names = {} THEN <<>>
    ELSE LET first == CHOOSE a \in names : \A b \in names \ {a} : StrLess(a, b)
         IN  <<first>> \o Sorted(names \ {first})

\* text.split(sep)
RECURSIVE SplitOn(_, _)
SplitOn(text, sep) ==
    LET stop == SkipWhile(text, 1, {c \in Range(text) : c # sep}) IN
    IF stop > Len(text) THEN <<text>>
    ELSE <<SubSeq(text, 1, stop - 1)>> \o SplitOn(SubSeq(text, stop + 1, Len(text)), sep)

\* int(digits)
RECURSIVE IntOf(_)
IntOf(digits) ==
    IF digits = <<>> THEN 0
    ELSE 10 * IntOf(SubSeq(digits, 1, Len(digits) - 1))
            + (CHOOSE d \in 0..9 : DecimalDigits[d + 1] = digits[Len(digits)])

\* str(n), n >= 0
RECURSIVE Decimal(_)
Decimal(n) ==
    IF n < 10 THEN <<DecimalDigits[n + 1]>>
    ELSE Append(Decimal(n \div 10), DecimalDigits[(n % 10) + 1])

\* f"{n:02d}", n >= 0
Padded(n) ==
    IF Len(Decimal(n)) < PadWidth
    THEN Repeated("0", PadWidth - Len(Decimal(n))) \o Decimal(n)
    ELSE Decimal(n)

Suffix == <<".", "p", "n", "g">>
PagePrefix == <<"p", "a", "g", "e", "_">>
ImageInfix == <<"_", "i", "m", "a", "g", "e", "_">>

\* Path.stem
Stem(name) == SubSeq(name, 1, Len(name) - Len(Suffix))

\* The new name of an image file (lines 68 to 74).
NewName(name, offset) ==
    LET parts == SplitOn(Stem(name), "_")
        old_page_idx == IntOf(parts[2])
        new_page_idx == old_page_idx + offset
        image_num == parts[4]
    IN  PagePrefix \o Padded(new_page_idx) \o ImageInfix \o image_num \o Suffix

NamesOf(files) == {f.name : f \in files}
FileNamed(files, name) == CHOOSE f \in files : f.name = name

\* shutil.move(src, dst) inside one directory: os.rename, which replaces a
\* file that has the new name
Move(files, src, dst) ==
    IF src = dst THEN files
    ELSE {f \in files : f.name \notin {src, dst}}
            \cup {[name |-> dst, content |-> FileNamed(files, src).content]}

\* -------------------------------------------------------------- the runs
MaxPages == 3       \* page indices of the directory's images
MaxImageNum == 2    \* images of a page

ImageName(page, image) == PagePrefix \o Padded(page) \o ImageInfix \o Decimal(image) \o Suffix

\* The image files a chapter directory can hold; the pages go from one digit
\* to two.
ImageFiles ==
    { [name |-> ImageName(page, image), content |-> <<page, image>>] :
        page \in 9..(8 + MaxPages), image \in 1..MaxImageNum }

Offsets == {-1, 1, 2}

InitFix ==
    /\ file = Absent
    /\ NoManager
    /\ tool = "fix_image_files"
    /\ input \in [exists : BOOLEAN, files : SUBSET ImageFiles, offset : Offsets]
    /\ input.exists \/ input.files = {}
    /\ output = NotRun

\* fix_image_files up to the loop: the directory is looked for, the image
\* files are listed and sorted (lines 58 to 66).
ListImages ==
    /\ tool = "fix_image_files"
    /\ output = NotRun
    /\ output' = [ files |-> input.files,
                   todo |-> IF input.exists THEN Sorted(NamesOf(input.files)) ELSE <<>>,
                   raised |-> FALSE ]
    /\ UNCHANGED <<managerVars, tool, input>>

\* One pass of the loop (lines 66 to 79); a file that is no longer there
\* makes shutil.move raise.
RenameImage ==
    /\ tool = "fix_image_files"
    /\ output # NotRun
    /\ ~output.raised
    /\ output.todo # <<>>
    /\ LET image_file == Head(output.todo) IN
       IF image_file \in NamesOf(output.files)
       THEN output' = [output EXCEPT
                        !.files = Move(@, image_file, NewName(image_file, input.offset)),
                        !.todo = Tail(@)]
       ELSE output' = [output EXCEPT !.raised = TRUE]
    /\ UNCHANGED <<managerVars, tool, input>>

NextFix == ListImages \/ RenameImage

SpecFix == InitFix /\ [][NextFix]_vars

SetsStatus(name) ==
    CASE name = "mark_passed" -> "passed"
      [] name = "mark_failed" -> "failed"
      [] name = "mark_blocked" -> "blocked"
      [] name = "reset" -> "new"
      [] OTHER -> None

C4_RetryCountBounded ==
    \A m \in Managers :
        (Built(m) /\ get_max_retries(state[m]) = DefaultMaxRetries)
        => get_retry_count(state[m]) <= get_max_retries(state[m])

\* C4 amended: increment_retry raises retry_count by exactly one whatever it
\* is and leaves max_retries alone; a call made while can_retry() is true
\* does not raise retry_count past max_retries.
C4_IncrementGuardedByCaller ==
    [][\A m \in Managers :
        Starts(m, "increment_retry") =>
            /\ get_retry_count(state'[m]) = get_retry_count(state[m]) + 1
            /\ get_max_retries(state'[m]) = get_max_retries(state[m])
            /\ can_retry(state[m]) =>
                  get_retry_count(state'[m]) <= get_max_retries(state'[m])
      ]_vars

\* The last increment_retry that can_retry() allows has been made.
C4_Witness ==
    \E m \in Managers :
        /\ pc[m] = "save"
        /\ call[m] = "increment_retry"
        /\ get_max_retries(state[m]) = DefaultMaxRetries
        /\ get_retry_count(state[m]) = get_max_retries(state[m])

\* ------------------------------------------------------------------ C5
\* C5: record_attempt appends exactly one record to the attempt history, made
\* from its arguments and the current retry_count, and keeps the records
\* before it as they were; no other call except reset() changes the history.
C5_HistoryAppendOnly ==
    [][\A m \in Managers :
        (Built(m) /\ Built(m)') =>
            LET old == state[m].attempts
                new == state'[m].attempts
            IN  IF Starts(m, "record_attempt")
                THEN /\ Len(new) = Len(old) + 1
                     /\ SubSeq(new, 1, Len(old)) = old
                     /\ new[Len(new)].attempt_number = get_retry_count(state[m])
                     /\ \E in \in AttemptInputs :
                           /\ new[Len(new)].stage = in.stage
                           /\ new[Len(new)].status = in.status
                           /\ new[Len(new)].scores = in.scores
                           /\ new[Len(new)].issues = in.issues
                ELSE IF Starts(m, "reset") THEN new = <<>>
                ELSE new = old
      ]_vars

\* record_attempt is adding a third record to a history of two.
C5_Witness ==
    \E m \in Managers :
        /\ pc[m] = "save"
        /\ call[m] = "record_attempt"
        /\ Len(state[m].attempts) = 3
        /\ state[m].attempts[1].status # state[m].attempts[3].status

\* ------------------------------------------------------------------ C6
\* C6: between two calls of the process that owns the unit, loading the state
\* file yields exactly the in-memory state (attempts, retry_count, status and
\* the rest), so a process that stops there loses nothing.
C6_PersistedAfterEveryCall ==
    \A m \in Managers :
        Idle(m) => /\ ~LoadState(file).raised
                   /\ LoadState(file).value = state[m]

\* A unit with recorded attempts, retries and a status, between two calls.
C6_Witness ==
    \E m \in Managers :
        /\ Idle(m)
        /\ file.kind = "complete"
        /\ Len(state[m].attempts) >= 2
        /\ get_retry_count(state[m]) >= 1
        /\ get_status(state[m]) = "failed"

\* ------------------------------------------------------------------ C7
\* C7 as stated: a process that loads the unit's state while a record_attempt
\* call is writing it gets the old or the new record, never an empty or a
\* partial one: its load does not fail.
C7_ReadSeesWholeRecord ==
    \A m \in Managers : pc[m] # "load_error"

\* ------------------------------------------------------------------ C8
\* C8: constructing a manager fails with an error when the state file exists
\* and does not hold a whole document; it yields the persisted state when the
\* file holds one; it yields the New state exactly when there is no file.
C8_LoadFailurePropagates ==
    [][\A m \in Managers :
        (pc[m] = "none" /\ pc'[m] # "none") =>
            /\ file.kind = "truncated" => pc'[m] = "load_error" /\ state'[m] = NoState
            /\ file.kind = "complete" => pc'[m] = "idle" /\ state'[m] = FromJson(file.doc)
            /\ file.kind = "absent" => pc'[m] = "idle" /\ state'[m] = NewState
            /\ state'[m] = NewState => file.kind = "absent"
      ]_vars

\* A load that failed on a file left truncated by a process that stopped in a save.
C8_Witness ==
    \E m \in Managers : pc[m] = "load_error" /\ file.kind = "truncated"

\* ------------------------------------------------------------------ C9
IsResetState(st) ==
    /\ get_status(st) = "new"
    /\ get_retry_count(st) = 0
    /\ st.attempts = <<>>
    /\ st.last_result = NoneResult
    /\ st.stage = None
    /\ DOMAIN st.validation_scores = ScoreKeys
    /\ \A k \in ScoreKeys : st.validation_scores[k] = None

\* C9: reset() leaves status New, retry_count 0, no attempts, no last_result
\* and every score unset, whatever the state was, and when it returns the
\* state file holds exactly that state.
C9_ResetClearsEverything ==
    [][\A m \in Managers :
        /\ Starts(m, "reset") => IsResetState(state'[m])
        /\ Returns(m, "reset") =>
              /\ IsResetState(state'[m])
              /\ file'.kind = "complete"
              /\ FromJson(file'.doc) = state'[m]
      ]_vars

\* reset() has cleared, and not yet saved, a Blocked unit with attempts and scores.
C9_Witness ==
    \E m \in Managers :
        /\ pc[m] = "save"
        /\ call[m] = "reset"
        /\ IsResetState(state[m])
        /\ file.kind = "complete"
        /\ file.doc.status = "blocked"
        /\ Len(file.doc.attempts) >= 2
        /\ file.doc.retry_count >= 2
        /\ file.doc.validation_scores["text_coverage"] # JsonNull

C11_CountsFollowCalls ==
    [][\A m \in Managers :
        /\ (pc[m] = "none" /\ pc'[m] = "idle" /\ file \in InitFiles) =>
              Len(state'[m].attempts) = 0 /\ get_retry_count(state'[m]) = 0
        /\ (Built(m) /\ Built(m)') =>
              LET len == Len(state[m].attempts)
                  len2 == Len(state'[m].attempts)
                  rc == get_retry_count(state[m])
                  rc2 == get_retry_count(state'[m])
              IN  IF Starts(m, "record_attempt") THEN len2 = len + 1 /\ rc2 = rc
                  ELSE IF Starts(m, "increment_retry") THEN len2 = len /\ rc2 = rc + 1
                  ELSE IF Starts(m, "reset") THEN len2 = 0 /\ rc2 = 0
                  ELSE len2 = len /\ rc2 = rc
      ]_vars

\* Failed, increment_retry, Failed, increment_retry, Passed: retry_count 2, three attempts.
C11_Witness ==
    \E m \in Managers :
        /\ Idle(m)
        /\ Len(state[m].attempts) = 3
        /\ get_retry_count(state[m]) = 2
        /\ state[m].attempts[1].status = "failed"
        /\ state[m].attempts[1].attempt_number = 0
        /\ state[m].attempts[2].status = "failed"
        /\ state[m].attempts[2].attempt_number = 1
        /\ state[m].attempts[3].status = "passed"
        /\ state[m].attempts[3].attempt_number = 2

\* ------------------------------------------------------------------ C12
\* Whitespace tokens of a sequence of texts, counted text by text.
RECURSIVE TokenCount(_)
TokenCount(texts) ==
    IF texts = <<>> THEN 0 ELSE Len(Split(Head(texts))) + TokenCount(Tail(texts))

\* The spans whose text is the reference text of comparator `name`.
ReferenceSpans(name, text_spans) ==
    IF name = "verify_text_content"
    THEN SelectSeq(text_spans, LAMBDA text : ~is_header_footer_text(Strip(text)))
    ELSE text_spans

\* C12: both comparators compute coverage from raw whitespace-token counts,
\* not from set sizes: the word counts are the numbers of tokens of the
\* reference spans and of the candidate's texts, repeated tokens counted as
\* often as they occur, and for every non-empty reference
\* coverage = candidate tokens / reference tokens * 100.
C12_CoverageFromTokenCounts ==
    \A name \in Comparators :
        Ran(name) =>
            LET reference == TokenCount(ReferenceSpans(name, input.text_spans))
                candidate == TokenCount(input.data)
            IN  /\ output.json_word_count = reference
                /\ output.html_word_count = candidate
                /\ reference > 0 =>
                      output.coverage.num * reference = 100 * candidate * output.coverage.den

\* A 5-token reference with a repeated token and a 4-token candidate with a
\* repeated token: 80%.
C12_Witness ==
    /\ Ran("detailed_page_diff")
    /\ output.json_word_count = 5
    /\ Cardinality(Range(output.json_words)) < 5
    /\ output.html_word_count = 4
    /\ Cardinality(Range(output.html_words)) < 4
    /\ Eq(output.coverage, 80)

\* ------------------------------------------------------------------ C13
\* C13: the status of detailed_page_diff is a function of coverage alone and
\* every coverage has exactly one status: above 100 REJECTED, exactly 100
\* PERFECT, from 99 to below 100 EXCELLENT, from 95 to below 99 ACCEPTABLE,
\* below 95 FAILED.
C13_VerdictTable ==
    Ran("detailed_page_diff") =>
        LET coverage == output.coverage
            status == output.status
        IN  /\ coverage = Coverage(input.html_word_count, input.json_word_count)
            /\ status = "REJECTED" <=> Gt(coverage, 100)
            /\ status = "PERFECT" <=> Eq(coverage, 100)
            /\ status = "EXCELLENT" <=> (Ge(coverage, 99) /\ Lt(coverage, 100))
            /\ status = "ACCEPTABLE" <=> (Ge(coverage, 95) /\ Lt(coverage, 99))
            /\ status = "FAILED" <=> Lt(coverage, 95)

\* 99 of 100 words: the lower end of EXCELLENT.
C13_Witness ==
    /\ Ran("detailed_page_diff")
    /\ input.json_word_count = 100
    /\ input.html_word_count = 99
    /\ output.status = "EXCELLENT"

\* ------------------------------------------------------------------ C14
\* C14 as stated: with an empty reference text a comparator yields coverage 0
\* when the candidate is not empty and coverage 100 when the candidate is
\* empty too.
C14_EmptyReference ==
    \A name \in Comparators :
        (Ran(name) /\ output.json_word_count = 0) =>
            IF output.html_word_count > 0
            THEN Eq(output.coverage, 0)
            ELSE Eq(output.coverage, 100)

\* ------------------------------------------------------------------ C15
\* C15 as stated: a span sequence that is both the reference (the text spans
\* of the page, through extract_text_from_json and is_header_footer_text) and
\* the candidate (the texts of the HTML file) has coverage exactly 100.
C15_SelfComparison ==
    (Ran("verify_text_content") /\ input.data = input.text_spans) =>
        Eq(output.coverage, 100)

\* ------------------------------------------------------------------ C16
\* The words of `words` that are not formatting tokens once normalized.
ContentWords(words) ==
    SelectSeq(words, LAMBDA w : ~is_formatting_word(normalize_word(w)))

\* C16 as stated: when words are missing from the candidate and every one of
\* them is a formatting token (here: the candidate's words are the reference's
\* words without the formatting tokens), the status is not FAILED.
C16_FormattingMissesDoNotFail ==
    ( /\ Ran("detailed_page_diff")
      /\ output.html_words = ContentWords(output.json_words)
      /\ output.missing_words # {}
      /\ \A w \in output.missing_words : is_formatting_word(w) )
    => output.status # "FAILED"

\* C16 amended: the missing words are reported in two lists, the formatting
\* tokens (no character other than - . bullet and dashes, or at most one
\* character) and the content words, when coverage is below 100 and a word is
\* missing; the lists do not enter the status, which is FAILED exactly when
\* coverage is below 95, whatever the missing words are.
C16_PartitionIsReportedOnly ==
    Ran("detailed_page_diff") =>
        /\ output.status = "FAILED" <=> Lt(output.coverage, 95)
        /\ output.analysed <=> (Lt(output.coverage, 100) /\ output.missing_words # {})
        /\ output.analysed =>
              /\ output.formatting_words =
                    {w \in output.missing_words :
                        Len(w) <= 1 \/ Range(w) \subseteq {"-", ".", Bullet, EnDash, EmDash}}
              /\ output.critical_words = output.missing_words \ output.formatting_words

\* The bullets and dashes of the page are not in the HTML file, all its words
\* are: both missing words are formatting tokens, and the status is FAILED.
C16_Witness ==
    /\ Ran("detailed_page_diff")
    /\ output.html_words = ContentWords(output.json_words)
    /\ output.formatting_words = {<<>>, <<"-", "-">>}
    /\ output.critical_words = {}
    /\ output.status = "FAILED"

\* ------------------------------------------------------------------ C17
\* The whitespace-normalized text of block i (from 1) of the run.
BlockText(i) == Join(<<" ">>, Split(output.content_blocks[i].content))

\* C17: find_duplicates reports no duplicate when the whitespace-normalized
\* texts of the blocks are all distinct, and at least one when a normalized
\* text of more than 50 characters is at two different indices.
C17_DuplicatesFound ==
    Ran("find_duplicates") =>
        LET n == Len(output.content_blocks) IN
        /\ (\A i, j \in 1..n : i # j => BlockText(i) # BlockText(j)) =>
              output.duplicates = <<>>
        /\ (\E i, j \in 1..n : i # j /\ BlockText(i) = BlockText(j) /\ Len(BlockText(i)) > 50) =>
              Len(output.duplicates) >= 1

\* Blocks 0 and 2 have the same words and differ in whitespace, block 1 is
\* another text: one duplicate is reported.
C17_Witness ==
    /\ Ran("find_duplicates")
    /\ Len(output.content_blocks) = 3
    /\ output.content_blocks[1].content # output.content_blocks[3].content
    /\ BlockText(1) = BlockText(3)
    /\ BlockText(1) # BlockText(2)
    /\ Len(output.duplicates) = 1

\* ------------------------------------------------------------------ C18
\* C18 as stated: for every normalized text of more than 50 characters that is
\* the text of k >= 2 blocks, find_duplicates returns exactly one entry,
\* whose positions are the k indices and whose count is k.
C18_OneEntryPerText ==
    Ran("find_duplicates") =>
        \A i \in DOMAIN output.content_blocks :
            LET at == {j \in DOMAIN output.content_blocks : BlockText(j) = BlockText(i)}
                entries == {e \in DOMAIN output.duplicates :
                               output.duplicates[e].positions[1] = Min(at) - 1}
            IN  (Cardinality(at) >= 2 /\ Len(BlockText(i)) > 50) =>
                    /\ Cardinality(entries) = 1
                    /\ \A e \in entries :
                          /\ Range(output.duplicates[e].positions) = {j - 1 : j \in at}
                          /\ Len(output.duplicates[e].positions) = Cardinality(at)
                          /\ output.duplicates[e].count = Cardinality(at)

\* ------------------------------------------------------------------ C19
\* C19 as stated: verify_chapter fails when the file has no chapter-header
\* div and when it has more than one, whatever the duplicates are.
C19_ExactlyOneHeader ==
    (Ran("verify_chapter") /\ output.header_count # 1) => ~output.success

\* ------------------------------------------------------------------ C20
\* The spans that are not noise: not blank, more than one character, not a
\* bullet glyph.
KeptSpans(text_spans) ==
    SelectSeq(text_spans, LAMBDA span :
        /\ Strip(span.text) # <<>>
        /\ Len(Strip(span.text)) > 1
        /\ Strip(span.text) \notin {<<BlackCircle>>, <<WhiteCircle>>, <<"*">>})

\* How often `token` is a whitespace token of the texts.
RECURSIVE Occurrences(_, _)
Occurrences(token, texts) ==
    IF texts = <<>> THEN 0
    ELSE Len(SelectSeq(Split(Head(texts)), LAMBDA w : w = token))
         + Occurrences(token, Tail(texts))

TextsOf(list) == [i \in DOMAIN list |-> list[i].text]

\* C20: the tokens of the texts of the elements of
\* group_text_spans_into_elements are, as a multiset, the tokens of the
\* spans that are not noise: every token is in the elements as often as in
\* the kept spans, none is dropped, none is duplicated.
C20_TokensPreserved ==
    Ran("group_text_spans_into_elements") =>
        LET kept == TextsOf(KeptSpans(input))
            emitted == TextsOf(output.elements)
        IN  \A token \in UNION {Range(Split(kept[i])) : i \in DOMAIN kept}
                     \cup UNION {Range(Split(emitted[i])) : i \in DOMAIN emitted} :
                Occurrences(token, emitted) = Occurrences(token, kept)

\* A glyph span is filtered, a heading span is a heading and the two spans of
\* body text after it are one paragraph of three tokens.
C20_Witness ==
    /\ Ran("group_text_spans_into_elements")
    /\ Len(input) = 4
    /\ Len(KeptSpans(input)) = 3
    /\ Len(output.elements) = 2
    /\ output.elements[1].type = "heading"
    /\ output.elements[2].type = "paragraph"
    /\ Len(Split(output.elements[2].text)) = 3

\* ------------------------------------------------------------------ C21
\* The whitespace tokens of the texts, in the order of the texts.
TokensInOrder(texts) == Split(Join(<<" ">>, texts))

\* C21 as stated: the elements are in reading order: the block of an earlier
\* kept span is never after the block of a later one, so the tokens of the
\* element texts, read element by element, are the tokens of the kept spans,
\* read span by span.
C21_ReadingOrder ==
    Ran("group_text_spans_into_elements") =>
        TokensInOrder(TextsOf(output.elements)) = TokensInOrder(TextsOf(KeptSpans(input)))

\* ------------------------------------------------------------------ C23
\* The heading level of a kept span, NoLevel for regular text.
LevelOf(span) ==
    IF is_heading_candidate(Strip(span.text), span.size, span.bold)
    THEN heading_level(Strip(span.text), span.size, span.bold)
    ELSE NoLevel

\* The texts of the maximal runs of adjacent spans of heading level `level`,
\* the texts of a run joined with a space.
RECURSIVE RunTexts(_, _, _)
RunTexts(spans, level, run) ==
    IF spans = <<>>
    THEN IF run = <<>> THEN <<>> ELSE <<Join(<<" ">>, run)>>
    ELSE IF LevelOf(Head(spans)) = level
    THEN RunTexts(Tail(spans), level, Append(run, Strip(Head(spans).text)))
    ELSE IF run = <<>> THEN RunTexts(Tail(spans), level, <<>>)
    ELSE <<Join(<<" ">>, run)>> \o RunTexts(Tail(spans), level, <<>>)

\* The texts of the heading elements of level `level`, in the order of the elements.
HeadingTexts(elements, level) ==
    TextsOf(SelectSeq(elements, LAMBDA el : el.type = "heading" /\ el.level = level))

\* C23 as stated: for every heading level 1 to 4, adjacent kept spans of the
\* same level are one heading element whose text is their concatenation: the
\* headings of a level are the runs of that level.
C23_RunsCollapsed ==
    Ran("group_text_spans_into_elements") =>
        \A level \in 1..4 :
            HeadingTexts(output.elements, level) = RunTexts(KeptSpans(input), level, <<>>)

\* C23 amended: for the heading levels 1 to 3, adjacent kept spans of the same
\* level are one heading element whose text is their concatenation; every
\* span of level 4 is a heading element of its own.
C23_RunsCollapsedBelowH4 ==
    Ran("group_text_spans_into_elements") =>
        /\ \A level \in 1..3 :
              HeadingTexts(output.elements, level) = RunTexts(KeptSpans(input), level, <<>>)
        /\ HeadingTexts(output.elements, 4) =
              TextsOf(SelectSeq(KeptSpans(input), LAMBDA span : LevelOf(span) = 4))
        /\ \A i \in DOMAIN output.elements :
              output.elements[i].type = "heading" => output.elements[i].level \in 1..4

\* Two adjacent spans of level 2 are one heading of four words, two adjacent
\* spans of level 4 are two headings.
C23_Witness ==
    /\ Ran("group_text_spans_into_elements")
    /\ Len(input) = 4
    /\ LevelOf(input[1]) = 2 /\ LevelOf(input[2]) = 2
    /\ LevelOf(input[3]) = 4 /\ LevelOf(input[4]) = 4
    /\ Len(output.elements) = 3
    /\ Len(Split(output.elements[1].text)) = 4

\* ------------------------------------------------------------------ C24
\* C24 as stated: a blank span forces a flush: the elements of a page are the
\* elements of the spans before the blank span followed by the elements of the
\* spans after it.
C24_BlankSpanFlushes ==
    Ran("group_text_spans_into_elements") =>
        \A i \in DOMAIN input :
            Strip(input[i].text) = <<>> =>
                output.elements =
                    group_text_spans_into_elements(SubSeq(input, 1, i - 1))
                    \o group_text_spans_into_elements(SubSeq(input, i + 1, Len(input)))

\* ------------------------------------------------------------------ C22
\* C22 as stated: in a unit with fewer than 2 distinct font sizes no span is
\* classified as a heading, and a low-confidence warning is given.
C22_FlatUnitIsBodyText ==
    (Ran("identify_structure") /\ Cardinality(Range(input)) < 2) =>
        /\ \A i \in DOMAIN output.classes : output.classes[i] = "p"
        /\ \E i \in DOMAIN output.printed : output.printed[i] = "low confidence"

\* ------------------------------------------------------------------ C25
AcceptingStatus == {"PERFECT", "EXCELLENT", "ACCEPTABLE"}

\* C25 as stated: for every pair of word counts verify_text_content returns
\* exit code 0 exactly when the status of detailed_page_diff is PERFECT,
\* EXCELLENT or ACCEPTABLE.
C25_GatesAgree ==
    /\ Ran("verify_text_content") =>
          (output.exit_code = 0 <=>
              diff_summary(input.json_word_count, input.html_word_count).status
                  \in AcceptingStatus)
    /\ Ran("detailed_page_diff") =>
          (output.status \in AcceptingStatus <=>
              verify_summary(input.json_word_count, input.html_word_count).exit_code = 0)

\* ------------------------------------------------------------------ C26
\* C26 as stated: when detailed_page_diff reports a coverage of exactly 100,
\* no word of the reference is missing from the candidate.
C26_PerfectMissesNothing ==
    (Ran("detailed_page_diff") /\ Eq(output.coverage, 100)) =>
        /\ output.status = "PERFECT"
        /\ output.missing_words = {}

\* ------------------------------------------------------------------ C27
\* C27 as stated: no recorded attempt is overwritten by a stale in-memory
\* copy: when no call is in progress, the attempts a manager has recorded or
\* loaded are the first attempts of the persisted history, so after two
\* managers that both loaded the state have called record_attempt once each
\* the persisted history holds both attempts.
C27_BothAttemptsPersisted ==
    ( /\ file.kind = "complete"
      /\ \A m \in Managers : pc[m] \notin {"save", "dump"} )
    => \A m \in Managers :
          Idle(m) =>
              /\ Len(state[m].attempts) <= Len(file.doc.attempts)
              /\ ToJson(state[m]).attempts =
                    SubSeq(file.doc.attempts, 1, Len(state[m].attempts))

\* ------------------------------------------------------------------ C28
\* The list markup of the parts is well-nested: with `open` saying whether a
\* list is open before the parts, an item is inside a list, a list is not
\* opened inside a list, and a list is closed before the next heading,
\* paragraph or page break and at the end.
RECURSIVE ListsNested(_, _)
ListsNested(parts, open) ==
    IF parts = <<>> THEN ~open
    ELSE LET tag == Head(parts).tag IN
         IF tag = "ul" THEN ~open /\ ListsNested(Tail(parts), TRUE)
         ELSE IF tag = "/ul" THEN open /\ ListsNested(Tail(parts), FALSE)
         ELSE IF tag = "li" THEN open /\ ListsNested(Tail(parts), open)
         ELSE IF tag \in {"h1", "h2", "h3", "p", "page-break"}
         THEN ~open /\ ListsNested(Tail(parts), open)
         ELSE ListsNested(Tail(parts), open)

\* C28 as stated: after any sequence of input lines text_to_html returns HTML
\* whose list markup is well-nested.
C28_ListsWellNested ==
    Ran("text_to_html") =>
        /\ ~output.raised
        /\ ListsNested(output.html_parts, FALSE)

\* ------------------------------------------------------------------ C29
\* C29 as stated: every call of validate on one validator returns what the
\* first call returned, and a JSON report and a screen report made by the
\* same validator hold the same errors, warnings and info.
C29_ValidateIdempotent ==
    Ran("validate_html") =>
        /\ \A i \in DOMAIN output.returned : output.returned[i] = output.returned[1]
        /\ output.json # NotRun /\ output.screen # NotRun =>
                /\ output.json.status = output.screen.status
                /\ output.json.errors = output.screen.errors
                /\ output.json.warnings = output.screen.warnings
                /\ output.json.info = output.screen.info

\* ------------------------------------------------------------------ C30
\* C30 as stated: when fix_image_files has renamed the files of the
\* directory with an offset other than 0, every original file of page N is
\* there under the name of page N + offset with its content, and the
\* directory holds as many files as before.
C30_NoImageLost ==
    Ran("fix_image_files") /\ output.todo = <<>> /\ input.offset # 0 =>
        /\ ~output.raised
        /\ \A f \in input.files :
                [name |-> ImageName(f.content[1] + input.offset, f.content[2]),
                 content |-> f.content] \in output.files
        /\ Cardinality(output.files) = Cardinality(input.files)

====
